---- MODULE Spec2Model ----
(***************************************************************************)
(* The JavaScript console REPL of src/src/plugin.cpp: the start command,   *)
(* the console line handler, the QuickJS environment it creates and        *)
(* destroys, the evaluation wrapper and the lazy global lookup bridge.     *)
(*                                                                         *)
(* Text is a sequence of one-character strings.  The embedded engine is    *)
(* modelled for the statements of the input alphabet only: a bare          *)
(* identifier, a direct call of the lookup bridge, and anything else,      *)
(* which does not parse.                                                   *)
(***************************************************************************)
EXTENDS Integers, Sequences, FiniteSets, TLC

\* ------------------------------------------------------------------ bounds
\* number of activations (runtime/context pairs ever created)
MaxSessions == 2
\* number of source lines the input buffer may hold
MaxLines == 2
\* number of console lines remembered since the activation
MaxHist == 4

\* --------------------------------------------------------------- constants
NULL == 0

END_REPL_COMMAND == <<"e", "n", "d">>
QUIT_GAME_COMMAND == <<"q", "q", "q">>
MyString == <<"M", "y", "S", "t", "r", "i", "n", "g">>

Foo == <<"F", "o", "o">>
Bar == <<"B", "a", "r">>
LOOKUP_CALL_HEAD == <<"_", "_", "l", "o", "o", "k", "u", "p", "_", "g", "l", "o", "b", "a", "l", "_", "f", "r", "o", "m", "_", "c", "p", "p", "(", "'">>
LOOKUP_CALL_TAIL == <<"'", ")">>
LookupCall(name) == LOOKUP_CALL_HEAD \o name \o LOOKUP_CALL_TAIL

\* the console lines the host delivers: blank lines, source lines and the
\* two sentinels
BlankLines == {<< >>, <<" ", "\r">>}
Lines == BlankLines \cup {Foo, MyString} \cup {END_REPL_COMMAND, QUIT_GAME_COMMAND}
\* the lines of the sessions that exercise the lookup bridge
BridgeLines ==
    {<< >>, END_REPL_COMMAND, QUIT_GAME_COMMAND, Foo, Bar, MyString, LookupCall(Foo), LookupCall(MyString)}

\* the lines of the sessions that try near misses of the sentinels
SentinelLines ==
    {<< >>, END_REPL_COMMAND, QUIT_GAME_COMMAND, MyString,
     <<"E", "N", "D">>, <<" ", "e", "n", "d">>, <<"e", "n", "d", " ">>, <<"Q", "Q", "Q">>}

\* outcomes of the three engine construction calls of initialize_js_environment
InitOutcomes == {"ok", "no_runtime", "no_context", "no_global"}

\* ------------------------------------------------------------ engine values
JS_UNDEFINED == [t |-> "undefined", ctx |-> NULL]
NoValue == [t |-> "none", ctx |-> NULL]
\* JS_NewString(ctx, "I am a string!"): a heap value owned by context ctx
JS_NewString(ctx) == [t |-> "I am a string!", ctx |-> ctx]
\* a heap value whose context has been freed, used from context ctx
Dangling(v, ctx) == v.ctx # NULL /\ v.ctx # ctx

Range(s) == {s[i] : i \in 1..Len(s)}
EmptyMap == [n \in {} |-> NoValue]

\* ------------------------------------------------------------- line helpers
isspace(c) == c \in {" ", "\t", "\n", "\r", "\f"}

\* plugin.cpp 297-300
IsBlankLine(current_line) ==
    \/ current_line = << >>
    \/ current_line = <<"\r">>
    \/ \A i \in 1..Len(current_line) : isspace(current_line[i])

\* AppendLine with the separator put in front of the first line too
AppendLineAlwaysSeparates(buf, current_line) == buf \o <<"\n">> \o current_line

\* plugin.cpp 310-311
AppendLine(buf, current_line) ==
    (IF buf # << >> THEN buf \o <<"\n">> ELSE buf) \o current_line

\* LineEffect without the reset of empty_line_detected at plugin.cpp 312
LineEffectKeepsPending(current_line, buf, pending) ==
    IF IsBlankLine(current_line)
    THEN IF pending
         THEN [submit |-> TRUE, input_buffer |-> buf, empty_line_detected |-> FALSE]
         ELSE [submit |-> FALSE, input_buffer |-> buf, empty_line_detected |-> TRUE]
    ELSE [submit |-> FALSE, input_buffer |-> AppendLine(buf, current_line),
          empty_line_detected |-> pending]

\* LineEffect that submits at every blank line, pending or not
LineEffectSubmitsAnyBlank(current_line, buf, pending) ==
    IF IsBlankLine(current_line)
    THEN [submit |-> TRUE, input_buffer |-> buf, empty_line_detected |-> FALSE]
    ELSE [submit |-> FALSE, input_buffer |-> AppendLine(buf, current_line),
          empty_line_detected |-> FALSE]

\* plugin.cpp 296-314: what a line that is no sentinel does to the input
\* state, and whether it submits the buffer
LineEffect(current_line, buf, pending) ==
    IF IsBlankLine(current_line)
    THEN IF pending
         THEN [submit |-> TRUE, input_buffer |-> buf, empty_line_detected |-> FALSE]
         ELSE [submit |-> FALSE, input_buffer |-> buf, empty_line_detected |-> TRUE]
    ELSE [submit |-> FALSE, input_buffer |-> AppendLine(buf, current_line),
          empty_line_detected |-> FALSE]

NumLines(buf) ==
    IF buf = << >> THEN 0 ELSE 1 + Cardinality({i \in 1..Len(buf) : buf[i] = "\n"})

\* ------------------------------------------------------- the engine's parser
Letters ==
    {"a", "b", "c", "d", "e", "f", "g", "h", "i", "j", "k", "l", "m",
     "n", "o", "p", "q", "r", "s", "t", "u", "v", "w", "x", "y", "z",
     "A", "B", "C", "D", "E", "F", "G", "H", "I", "J", "K", "L", "M",
     "N", "O", "P", "Q", "R", "S", "T", "U", "V", "W", "X", "Y", "Z"}

\* a statement that is one bare identifier
IsIdentifier(s) == s # << >> /\ \A i \in 1..Len(s) : s[i] \in Letters \cup {"_", "$"}

\* a statement that calls the bridge directly: __lookup_global_from_cpp('<name>')
IsLookupCall(s) ==
    /\ Len(s) > Len(LOOKUP_CALL_HEAD) + Len(LOOKUP_CALL_TAIL)
    /\ SubSeq(s, 1, Len(LOOKUP_CALL_HEAD)) = LOOKUP_CALL_HEAD
    /\ SubSeq(s, Len(s) - Len(LOOKUP_CALL_TAIL) + 1, Len(s)) = LOOKUP_CALL_TAIL
    /\ IsIdentifier(SubSeq(s, Len(LOOKUP_CALL_HEAD) + 1, Len(s) - Len(LOOKUP_CALL_TAIL)))

CallArg(s) == SubSeq(s, Len(LOOKUP_CALL_HEAD) + 1, Len(s) - Len(LOOKUP_CALL_TAIL))

\* a statement without the white space around it
Trim(s) ==
    LET black == {i \in 1..Len(s) : ~isspace(s[i])}
    IN  IF black = {} THEN << >>
        ELSE SubSeq(s, CHOOSE i \in black : \A j \in black : i <= j,
                       CHOOSE i \in black : \A j \in black : j <= i)

\* the statements of a program text, one per line
RECURSIVE SplitLines(_)
SplitLines(text) ==
    IF "\n" \notin Range(text) THEN <<text>>
    ELSE LET i == CHOOSE k \in 1..Len(text) :
                      text[k] = "\n" /\ \A j \in 1..(k - 1) : text[j] # "\n"
         IN  <<SubSeq(text, 1, i - 1)>> \o SplitLines(SubSeq(text, i + 1, Len(text)))

\* ---------------------------------------------------------------- exceptions
IS_NOT_DEFINED == <<"i", "s", " ", "n", "o", "t", " ", "d", "e", "f", "i", "n", "e", "d">>
\* the message of the engine's ReferenceError is "<name> is not defined"
NoException == [kind |-> "none", msg |-> << >>]
ReferenceError(name) == [kind |-> "ReferenceError", msg |-> name \o <<" ">> \o IS_NOT_DEFINED]
SyntaxError == [kind |-> "SyntaxError", msg |-> <<"u", "n", "e", "x", "p", "e", "c", "t", "e", "d">>]

\* e.message.includes('is not defined')
Includes(msg, pat) ==
    \E i \in 1..Len(msg) : i + Len(pat) - 1 <= Len(msg) /\ SubSeq(msg, i, i + Len(pat) - 1) = pat

\* FirstWord that takes the whole message for the name
WholeMessage(msg) == msg

\* e.message.split(' ')[0]
FirstWord(msg) ==
    IF " " \notin Range(msg) THEN msg
    ELSE LET i == CHOOSE k \in 1..Len(msg) :
                      msg[k] = " " /\ \A j \in 1..(k - 1) : msg[j] # " "
         IN  SubSeq(msg, 1, i - 1)

\* -------------------------------------------------------- the lookup bridge
\* An engine state es is a record
\*   vars     the table global_vars
\*   obj      the properties the bridge and the wrapper defined on the
\*            global object of the current context
\*   lookups  the calls of js_lookup_global made so far in this handler
\*   ret      the value the last call of js_lookup_global returned
\*   ub       a value of a freed context has been used
EngineState(vars, obj) ==
    [vars |-> vars, obj |-> obj, lookups |-> << >>, ret |-> NoValue, ub |-> FALSE]

\* plugin.cpp 54-56, 68-69: the value a missing name is created with
NewGlobal(ctx, prop_name) ==
    IF prop_name = MyString THEN JS_NewString(ctx) ELSE JS_UNDEFINED

\* LookupHit without the table check: every lookup creates the global anew
LookupNeverHits(vars, prop_name) == FALSE

\* plugin.cpp 46-47: the name is in the table already
LookupHit(vars, prop_name) == prop_name \in DOMAIN vars

\* plugin.cpp 28-80 (the argument is one string)
js_lookup_global(es, ctx, prop_name) ==
    IF LookupHit(es.vars, prop_name)
    THEN [es EXCEPT !.ret = es.vars[prop_name],
                    !.ub = @ \/ Dangling(es.vars[prop_name], ctx),
                    !.lookups = Append(@, [name |-> prop_name, hit |-> TRUE,
                                           ret |-> es.vars[prop_name]])]
    ELSE LET new_global == NewGlobal(ctx, prop_name)
         IN  [es EXCEPT !.vars = (prop_name :> new_global) @@ @,
                        !.obj = (prop_name :> new_global) @@ @,
                        !.ret = new_global,
                        !.lookups = Append(@, [name |-> prop_name, hit |-> FALSE,
                                               ret |-> new_global])]

\* ------------------------------------------------------ the engine's evaluator
\* the statements from the i-th on, run in order; the completion value is
\* the value of the last statement
RECURSIVE EvalStmts(_, _, _, _, _)
EvalStmts(stmts, i, es, ctx, val) ==
    IF i > Len(stmts) THEN [es |-> es, exc |-> NoException, val |-> val]
    ELSE LET s == Trim(stmts[i])
         IN  IF IsIdentifier(s)
             THEN IF s \in DOMAIN es.obj
                  THEN EvalStmts(stmts, i + 1,
                                 [es EXCEPT !.ub = @ \/ Dangling(es.obj[s], ctx)],
                                 ctx, es.obj[s])
                  ELSE [es |-> es, exc |-> ReferenceError(s), val |-> JS_UNDEFINED]
             ELSE LET lk == js_lookup_global(es, ctx, CallArg(s))
                  IN  EvalStmts(stmts, i + 1, lk, ctx, lk.ret)

\* eval(text): a text with a statement that does not parse throws before
\* anything runs
Eval(text, es, ctx) ==
    LET stmts == SplitLines(text)
    IN  IF \E i \in 1..Len(stmts) :
                 ~IsIdentifier(Trim(stmts[i])) /\ ~IsLookupCall(Trim(stmts[i]))
        THEN [es |-> es, exc |-> SyntaxError, val |-> JS_UNDEFINED]
        ELSE EvalStmts(stmts, 1, es, ctx, JS_UNDEFINED)

\* ------------------------------------------------------- execute_js_code
\* plugin.cpp 225-242: the wrapper source, the buffer spliced in twice
WRAP_TRY == "(function() try return eval("
WRAP_RETRY == "); catch (e) if (e is ReferenceError, message includes 'is not defined') globalThis[varName] = __lookup_global_from_cpp(varName); return eval("
WRAP_END == "); throw e; )()"
WrappedCode(buf) == <<WRAP_TRY>> \o buf \o <<WRAP_RETRY>> \o buf \o <<WRAP_END>>

Index(code, tok) ==
    CHOOSE k \in 1..Len(code) : code[k] = tok /\ \A j \in 1..(k - 1) : code[j] # tok
\* the two template literals of the wrapper (the alphabet has no backquote,
\* backslash or dollar sign, so the value of a literal is its source text)
TryText(code) == SubSeq(code, Index(code, WRAP_TRY) + 1, Index(code, WRAP_RETRY) - 1)
RetryText(code) == SubSeq(code, Index(code, WRAP_RETRY) + 1, Index(code, WRAP_END) - 1)

\* the catch clause retries after a name-not-defined error
Retries(exc) == exc.kind = "ReferenceError" /\ Includes(exc.msg, IS_NOT_DEFINED)

\* plugin.cpp 234: globalThis[varName] = the value the lookup returned
DefineGlobal(lk, varName) == [lk EXCEPT !.obj = (varName :> lk.ret) @@ @]

\* plugin.cpp 231-241: the catch clause, try being the outcome of the first eval
Catch(try, code, ctx) ==
    IF try.exc = NoException THEN try @@ [attempts |-> 1, first |-> try.exc]
    ELSE IF Retries(try.exc)
    THEN Eval(RetryText(code),
              DefineGlobal(js_lookup_global(try.es, ctx, FirstWord(try.exc.msg)),
                           FirstWord(try.exc.msg)),
              ctx) @@ [attempts |-> 2, first |-> try.exc]
    ELSE try @@ [attempts |-> 1, first |-> try.exc]

\* plugin.cpp 226-247: JS_Eval of the wrapper
EvalWrapped(code, es, ctx) == Catch(Eval(TryText(code), es, ctx), code, ctx)

\* a console message: the format string and the value formatted into it
Msg(text) == [text |-> text, val |-> NoValue]
MsgVal(text, val) == [text |-> text, val |-> val]

\* plugin.cpp 221: nothing is evaluated without a context or with an empty buffer
ExecuteSkips(ctx, buf) == ctx = NULL \/ buf = << >>

\* BufferAfterEval with the reset skipped when the evaluation threw
BufferKeptOnException(exc, buf) == IF exc # NoException THEN buf ELSE << >>

\* plugin.cpp 264-265: the buffer is reset whatever the evaluation did
BufferAfterEval(exc, buf) == << >>

\* plugin.cpp 249-265: what execute_js_code does with the result of JS_Eval
AfterEval(result, wrapped_code, buf) ==
    [input_buffer |-> BufferAfterEval(result.exc, buf),
     vars |-> result.es.vars,
     obj |-> result.es.obj,
     console |-> <<Msg("Executing JavaScript code:")>> \o
                 (IF result.exc = NoException /\ result.val # JS_UNDEFINED
                  THEN <<MsgVal("=> {}", result.val)>> ELSE << >>),
     logged |-> IF result.exc # NoException THEN <<"Error: {}">> ELSE << >>,
     evaluated |-> TRUE,
     code |-> wrapped_code,
     lookups |-> result.es.lookups,
     ub |-> result.es.ub,
     attempts |-> result.attempts,
     first |-> result.first,
     exc |-> result.exc,
     val |-> result.val]

\* plugin.cpp 220-266
execute_js_code(ctx, buf, vars, obj) ==
    IF ExecuteSkips(ctx, buf)
    THEN [input_buffer |-> buf, vars |-> vars, obj |-> obj, console |-> << >>,
          logged |-> << >>, evaluated |-> FALSE, code |-> << >>, lookups |-> << >>,
          ub |-> FALSE, attempts |-> 0, first |-> NoException, exc |-> NoException,
          val |-> NoValue]
    ELSE AfterEval(EvalWrapped(WrappedCode(buf), EngineState(vars, obj), ctx),
                   WrappedCode(buf), buf)

\* the engine objects a handler creates and frees, in the order of the calls
New(kind, id) == [ev |-> "new", kind |-> kind, id |-> id]
Free(kind, id) == [ev |-> "free", kind |-> kind, id |-> id]

\* the live engine objects after the events
RECURSIVE Apply(_, _)
Apply(objs, events) ==
    IF events = << >> THEN objs
    ELSE LET e == Head(events)
             o == [kind |-> e.kind, id |-> e.id]
         IN  Apply(IF e.ev = "new" THEN objs \cup {o} ELSE objs \ {o}, Tail(events))

\* plugin.cpp 153-200: the pointers and the console output after the call
initialize_js_environment(outcome, ctx, id) ==
    IF outcome = "no_runtime"
    THEN [runtime |-> NULL, context |-> ctx, events |-> << >>,
          console |-> <<Msg("Failed to create JS runtime")>>, logged |-> << >>]
    ELSE IF outcome = "no_context"
    THEN [runtime |-> NULL, context |-> NULL,
          events |-> <<New("runtime", id), Free("runtime", id)>>,
          console |-> <<Msg("Failed to create JS context")>>, logged |-> << >>]
    ELSE IF outcome = "no_global"
    THEN [runtime |-> NULL, context |-> NULL,
          events |-> <<New("runtime", id), New("context", id),
                       Free("context", id), Free("runtime", id)>>,
          console |-> <<Msg("Failed to get global object")>>, logged |-> <<"Error: {}">>]
    ELSE [runtime |-> id, context |-> id,
          events |-> <<New("runtime", id), New("context", id)>>,
          console |-> <<Msg("JavaScript environment initialized")>>, logged |-> << >>]

\* cleanup_js_environment without the input_buffer.clear() of plugin.cpp 215
CleanupKeepsBuffer(rt, ctx, buf, pending) ==
    [context |-> NULL, runtime |-> NULL, input_buffer |-> buf,
     empty_line_detected |-> FALSE,
     events |-> (IF ctx # NULL THEN <<Free("context", ctx)>> ELSE << >>) \o
                (IF rt # NULL THEN <<Free("runtime", rt)>> ELSE << >>)]

\* cleanup_js_environment with the runtime freed before its context
CleanupFreesRuntimeFirst(rt, ctx, buf, pending) ==
    [context |-> NULL, runtime |-> NULL, input_buffer |-> << >>,
     empty_line_detected |-> FALSE,
     events |-> (IF rt # NULL THEN <<Free("runtime", rt)>> ELSE << >>) \o
                (IF ctx # NULL THEN <<Free("context", ctx)>> ELSE << >>)]

\* cleanup_js_environment without the release of the runtime of plugin.cpp 209-212
CleanupLeavesRuntime(rt, ctx, buf, pending) ==
    [context |-> NULL, runtime |-> rt, input_buffer |-> << >>,
     empty_line_detected |-> FALSE,
     events |-> IF ctx # NULL THEN <<Free("context", ctx)>> ELSE << >>]

\* plugin.cpp 203-217: the state after the call
cleanup_js_environment(rt, ctx, buf, pending) ==
    [context |-> NULL, runtime |-> NULL, input_buffer |-> << >>,
     empty_line_detected |-> FALSE,
     events |-> (IF ctx # NULL THEN <<Free("context", ctx)>> ELSE << >>) \o
                (IF rt # NULL THEN <<Free("runtime", rt)>> ELSE << >>)]

\* ------------------------------------------------------------------- state
VARIABLES
    running,              \* _isJavaScriptREPLRunning
    runtime,              \* the JSRuntime pointer: NULL or the id of a live runtime
    context,              \* the JSContext pointer: NULL or the id of a live context
    input_buffer,
    empty_line_detected,
    global_vars,          \* the table: name -> value
    global_obj,           \* lazily defined properties of the context's global object
    claims,               \* calls of claim_ownership so far
    releases,             \* calls of release_ownership so far
    sessions,             \* runs of initialize_js_environment so far
    console,              \* what the last handler printed to the console
    logged,               \* what the last handler wrote to the log
    last,                 \* the last handler call: its input, result, evaluation
                          \* and engine objects created and freed
    hist,                 \* the lines delivered since the activation
    crashed,              \* the process died using a value of a freed context
    live                  \* the engine objects created and not yet freed

vars == <<running, runtime, context, input_buffer, empty_line_detected, global_vars,
          global_obj, claims, releases, sessions, console, logged, last, hist, crashed,
          live>>

NoCall ==
    [op |-> "none", line |-> << >>, ret |-> FALSE, outcome |-> "none", exec |-> FALSE,
     submitted |-> << >>, evaluated |-> FALSE, code |-> << >>, lookups |-> << >>,
     attempts |-> 0, first |-> NoException, exc |-> NoException, val |-> NoValue,
     ub |-> FALSE, events |-> << >>]

LineCall(line, ret) == [NoCall EXCEPT !.op = "line", !.line = line, !.ret = ret]
StartCall(outcome, ret) == [NoCall EXCEPT !.op = "start", !.outcome = outcome, !.ret = ret]

\* hist.rec: the lines are being remembered; hist.ok: none has been forgotten
Record(h, line) ==
    IF h.ok /\ Len(h.lines) < MaxHist
    THEN [h EXCEPT !.lines = Append(@, line)]
    ELSE [h EXCEPT !.ok = FALSE, !.lines = << >>]

Init ==
    /\ running = FALSE
    /\ runtime = NULL
    /\ context = NULL
    /\ input_buffer = << >>
    /\ empty_line_detected = FALSE
    /\ global_vars = EmptyMap
    /\ global_obj = EmptyMap
    /\ claims = 0
    /\ releases = 0
    /\ sessions = 0
    /\ console = << >>
    /\ logged = << >>
    /\ last = NoCall
    /\ hist = [rec |-> TRUE, ok |-> TRUE, lines |-> << >>]
    /\ crashed = FALSE
    /\ live = {}

\* -------------------------------------------------- onJavaScriptREPLText
\* HandlesText without the check of the running flag
HandlesTextAlways(isRunning) == TRUE
\* plugin.cpp 279
HandlesText(isRunning) == isRunning
\* IsQuit without the quit sentinel: the line is treated as input
IsQuitNever(current_line) == FALSE
\* plugin.cpp 282
IsQuit(current_line) == current_line = QUIT_GAME_COMMAND
\* IsEnd that ignores white space around the line
IsEndTrimmed(current_line) == Trim(current_line) = END_REPL_COMMAND
\* plugin.cpp 284
IsEnd(current_line) == current_line = END_REPL_COMMAND

\* plugin.cpp 278, 317-318: the REPL is not running
TextWhileIdle(commandText) ==
    /\ ~crashed
    /\ ~HandlesText(running)
    /\ last' = LineCall(commandText, FALSE)
    /\ console' = << >>
    /\ logged' = <<"Received command: {}", "JavaScript REPL is not running, ignoring command.">>
    /\ UNCHANGED <<running, runtime, context, input_buffer, empty_line_detected,
                   global_vars, global_obj, claims, releases, sessions, hist, crashed, live>>

\* plugin.cpp 278-282
QuitText(commandText) ==
    /\ ~crashed
    /\ HandlesText(running)
    /\ IsQuit(commandText)
    /\ last' = LineCall(commandText, FALSE)
    /\ console' = << >>
    /\ logged' = <<"Received command: {}">>
    /\ hist' = Record(hist, commandText)
    /\ UNCHANGED <<running, runtime, context, input_buffer, empty_line_detected,
                   global_vars, global_obj, claims, releases, sessions, crashed, live>>

\* plugin.cpp 278-294
EndText(commandText) ==
    /\ ~crashed
    /\ HandlesText(running)
    /\ ~IsQuit(commandText)
    /\ IsEnd(commandText)
    /\ LET clean == cleanup_js_environment(runtime, context, input_buffer,
                                           empty_line_detected)
       IN  /\ context' = clean.context
           /\ runtime' = clean.runtime
           /\ input_buffer' = clean.input_buffer
           /\ empty_line_detected' = clean.empty_line_detected
           /\ live' = Apply(live, clean.events)
           /\ last' = [LineCall(commandText, TRUE) EXCEPT !.events = clean.events]
    /\ global_obj' = EmptyMap
    /\ running' = FALSE
    /\ releases' = releases + 1
    /\ console' = <<Msg("Ending JavaScript REPL...")>>
    /\ logged' = <<"Received command: {}", "Ending JavaScript REPL...">>
    /\ hist' = Record(hist, commandText)
    /\ UNCHANGED <<global_vars, claims, sessions, crashed>>

\* plugin.cpp 278-308, 315: a blank line, the one before was not blank
FirstBlankText(commandText) ==
    /\ ~crashed
    /\ HandlesText(running)
    /\ ~IsQuit(commandText)
    /\ ~IsEnd(commandText)
    /\ IsBlankLine(commandText)
    /\ ~LineEffect(commandText, input_buffer, empty_line_detected).submit
    /\ input_buffer' = LineEffect(commandText, input_buffer, empty_line_detected).input_buffer
    /\ empty_line_detected' =
           LineEffect(commandText, input_buffer, empty_line_detected).empty_line_detected
    /\ last' = LineCall(commandText, TRUE)
    /\ console' = << >>
    /\ logged' = <<"Received command: {}">>
    /\ hist' = Record(hist, commandText)
    /\ UNCHANGED <<running, runtime, context, global_vars, global_obj,
                   claims, releases, sessions, crashed, live>>

\* plugin.cpp 301-305: the state after execute_js_code has returned done
Executed(commandText, done) ==
    /\ input_buffer' = done.input_buffer
    /\ global_vars' = done.vars
    /\ global_obj' = done.obj
    /\ console' = done.console
    /\ logged' = <<"Received command: {}", "Executing JavaScript code: {}">> \o done.logged
    /\ last' = [LineCall(commandText, TRUE) EXCEPT
                   !.exec = TRUE, !.submitted = input_buffer,
                   !.evaluated = done.evaluated, !.code = done.code,
                   !.lookups = done.lookups, !.attempts = done.attempts,
                   !.first = done.first,
                   !.exc = done.exc, !.val = done.val, !.ub = done.ub]

\* plugin.cpp 278-305, 315: the second blank line in a row
SecondBlankText(commandText) ==
    /\ ~crashed
    /\ HandlesText(running)
    /\ ~IsQuit(commandText)
    /\ ~IsEnd(commandText)
    /\ LineEffect(commandText, input_buffer, empty_line_detected).submit
    /\ Executed(commandText,
                execute_js_code(context, input_buffer, global_vars, global_obj))
    /\ empty_line_detected' =
           LineEffect(commandText, input_buffer, empty_line_detected).empty_line_detected
    /\ hist' = Record(hist, commandText)
    /\ UNCHANGED <<running, runtime, context, claims, releases, sessions, crashed, live>>

\* the same call when the evaluation uses a value of a freed context and the
\* process dies of it
SecondBlankTextCrash(commandText) ==
    /\ ~crashed
    /\ HandlesText(running)
    /\ ~IsQuit(commandText)
    /\ ~IsEnd(commandText)
    /\ LineEffect(commandText, input_buffer, empty_line_detected).submit
    /\ execute_js_code(context, input_buffer, global_vars, global_obj).ub
    /\ crashed' = TRUE
    /\ last' = [NoCall EXCEPT !.op = "crash", !.line = commandText]
    /\ UNCHANGED <<running, runtime, context, input_buffer, empty_line_detected,
                   global_vars, global_obj, claims, releases, sessions, console,
                   logged, hist, live>>

\* plugin.cpp 278-300, 309-315: any other line
SourceText(commandText) ==
    /\ ~crashed
    /\ HandlesText(running)
    /\ ~IsQuit(commandText)
    /\ ~IsEnd(commandText)
    /\ ~IsBlankLine(commandText)
    /\ NumLines(input_buffer) < MaxLines
    /\ input_buffer' = LineEffect(commandText, input_buffer, empty_line_detected).input_buffer
    /\ empty_line_detected' =
           LineEffect(commandText, input_buffer, empty_line_detected).empty_line_detected
    /\ last' = LineCall(commandText, TRUE)
    /\ console' = << >>
    /\ logged' = <<"Received command: {}", "{}">>
    /\ hist' = Record(hist, commandText)
    /\ UNCHANGED <<running, runtime, context, global_vars, global_obj, claims,
                   releases, sessions, crashed, live>>

onJavaScriptREPLText(commandText) ==
    \/ TextWhileIdle(commandText)
    \/ QuitText(commandText)
    \/ EndText(commandText)
    \/ FirstBlankText(commandText)
    \/ SecondBlankText(commandText)
    \/ SecondBlankTextCrash(commandText)
    \/ SourceText(commandText)

\* ------------------------------------------------- onStartJavaScriptREPL
\* StartRefused without the check of the running flag
StartNeverRefused(isRunning) == FALSE
\* plugin.cpp 323
StartRefused(isRunning) == isRunning

\* plugin.cpp 323, 345
StartWhileRunning ==
    /\ ~crashed
    /\ StartRefused(running)
    /\ last' = StartCall("none", FALSE)
    /\ console' = << >>
    /\ logged' = << >>
    /\ UNCHANGED <<running, runtime, context, input_buffer, empty_line_detected,
                   global_vars, global_obj, claims, releases, sessions, hist, crashed, live>>

\* plugin.cpp 323-343
StartFromIdle(outcome) ==
    /\ ~crashed
    /\ ~StartRefused(running)
    /\ sessions < MaxSessions
    /\ LET env == initialize_js_environment(outcome, context, sessions + 1)
       IN  /\ runtime' = env.runtime
           /\ context' = env.context
           /\ console' = <<Msg("Starting JavaScript REPL...")>> \o env.console \o
                         <<Msg("QuickJS REPL - Enter JavaScript code (double newline to execute, use 'end' command to exit)"),
                           Msg("> ")>>
           /\ logged' = <<"Starting JavaScript REPL...">> \o env.logged
           /\ live' = Apply(live, env.events)
           /\ last' = [StartCall(outcome, TRUE) EXCEPT !.events = env.events]
    /\ global_obj' = EmptyMap
    /\ sessions' = sessions + 1
    /\ input_buffer' = << >>
    /\ empty_line_detected' = FALSE
    /\ claims' = claims + 1
    /\ running' = TRUE
    /\ hist' = [hist EXCEPT !.ok = hist.rec, !.lines = << >>]
    /\ UNCHANGED <<global_vars, releases, crashed>>

onStartJavaScriptREPL(outcome) ==
    \/ StartWhileRunning
    \/ StartFromIdle(outcome)

Next ==
    \/ \E commandText \in Lines : onJavaScriptREPLText(commandText)
    \/ \E outcome \in InitOutcomes : onStartJavaScriptREPL(outcome)

Spec == Init /\ [][Next]_vars

\* the sessions that exercise the lookup bridge; the lines are not remembered
InitBridge ==
    /\ running = FALSE
    /\ runtime = NULL
    /\ context = NULL
    /\ input_buffer = << >>
    /\ empty_line_detected = FALSE
    /\ global_vars = EmptyMap
    /\ global_obj = EmptyMap
    /\ claims = 0
    /\ releases = 0
    /\ sessions = 0
    /\ console = << >>
    /\ logged = << >>
    /\ last = NoCall
    /\ hist = [rec |-> FALSE, ok |-> FALSE, lines |-> << >>]
    /\ crashed = FALSE
    /\ live = {}

NextBridge ==
    \/ \E commandText \in BridgeLines : onJavaScriptREPLText(commandText)
    \/ \E outcome \in InitOutcomes : onStartJavaScriptREPL(outcome)

SpecBridge == InitBridge /\ [][NextBridge]_vars

\* the sessions that try near misses of the sentinels; the lines are not
\* remembered
NextSentinel ==
    \/ \E commandText \in SentinelLines : onJavaScriptREPLText(commandText)
    \/ \E outcome \in InitOutcomes : onStartJavaScriptREPL(outcome)

SpecSentinel == InitBridge /\ [][NextSentinel]_vars

\* ================================================================= claims
\* the vocabulary of the claims, stated on the text alone
Whitespace == {" ", "\t", "\n", "\r", "\f"}
Blank(line) == \A i \in 1..Len(line) : line[i] \in Whitespace
Sentinel(line) == line = <<"e", "n", "d">> \/ line = <<"q", "q", "q">>
Ordinary(line) == ~Blank(line) /\ ~Sentinel(line)

\* the lines joined by single newline characters
RECURSIVE JoinLines(_)
JoinLines(ls) ==
    IF ls = << >> THEN << >>
    ELSE IF Len(ls) = 1 THEN ls[1]
    ELSE ls[1] \o <<"\n">> \o JoinLines(Tail(ls))

\* the lines since the activation are L1..Ln, n >= 1, then two blank lines
Block(ls) ==
    /\ Len(ls) >= 3
    /\ Blank(ls[Len(ls)])
    /\ Blank(ls[Len(ls) - 1])
    /\ \A i \in 1..(Len(ls) - 2) : Ordinary(ls[i])

BlockText(ls) == JoinLines(SubSeq(ls, 1, Len(ls) - 2))

\* C1: when the lines received since the activation are L1..Ln (n >= 1, none
\* blank, none a sentinel) followed by two blank lines, the second blank line
\* submits the buffer, the submitted text is L1..Ln joined by single newlines,
\* and that same text is what the wrapper evaluates, in both of its places.
C1_SubmittedTextIsJoinedLines ==
    (last.op = "line" /\ hist.ok /\ Block(hist.lines)) =>
        /\ last.exec
        /\ last.submitted = BlockText(hist.lines)
        /\ last.evaluated =>
              /\ TryText(last.code) = BlockText(hist.lines)
              /\ RetryText(last.code) = BlockText(hist.lines)

C1_Witness ==
    /\ last.op = "line" /\ hist.ok /\ Block(hist.lines)
    /\ Len(hist.lines) = 4
    /\ last.evaluated
    /\ last.submitted = <<"F", "o", "o", "\n", "M", "y", "S", "t", "r", "i", "n", "g">>

\* C2: while active, a blank line that does not follow a blank line submits
\* nothing and leaves the buffer alone, and an ordinary line right after it
\* submits nothing either, is appended to the buffer as it was before the
\* blank line, and leaves the pending-blank marker false.
C2_SingleBlankDoesNotSubmit ==
    [][/\ (running /\ ~empty_line_detected /\ last'.op = "line" /\ Blank(last'.line)) =>
            /\ ~last'.exec /\ ~last'.evaluated
            /\ input_buffer' = input_buffer
       /\ (/\ running /\ last.op = "line" /\ last.ret /\ Blank(last.line) /\ ~last.exec
           /\ last'.op = "line" /\ Ordinary(last'.line)) =>
            /\ ~last'.exec /\ ~last'.evaluated /\ last'.ret
            /\ input_buffer' = JoinLines(IF input_buffer = << >> THEN <<last'.line>>
                                         ELSE <<input_buffer, last'.line>>)
            /\ ~empty_line_detected'
            /\ global_vars' = global_vars /\ global_obj' = global_obj]_vars

C2_Witness ==
    /\ running /\ hist.ok /\ Len(hist.lines) = 3
    /\ Ordinary(hist.lines[1]) /\ Blank(hist.lines[2]) /\ Ordinary(hist.lines[3])
    /\ input_buffer = JoinLines(<<hist.lines[1], hist.lines[3]>>)
    /\ ~empty_line_detected

\* C3: after a line that submits the buffer (the second of two blank lines in
\* a row) the buffer is empty and the pending-blank marker is false.
C3_BufferEmptyAfterSubmission ==
    (last.op = "line" /\ last.exec) => (input_buffer = << >> /\ ~empty_line_detected)

\* C4: the end sentinel received while active leaves the session idle with an
\* empty buffer, no pending blank, no context and no runtime, releases the
\* ownership once, is reported handled, and evaluates nothing.
C4_EndTearsDown ==
    [][(running /\ last'.op = "line" /\ last'.line = <<"e", "n", "d">>) =>
          /\ ~running'
          /\ input_buffer' = << >>
          /\ ~empty_line_detected'
          /\ context' = NULL /\ runtime' = NULL
          /\ releases' = releases + 1 /\ claims' = claims
          /\ last'.ret
          /\ ~last'.exec /\ ~last'.evaluated /\ last'.lookups = << >>
          /\ global_vars' = global_vars]_vars

C4_Witness ==
    /\ last.op = "line" /\ last.line = <<"e", "n", "d">> /\ last.ret
    /\ ~running /\ input_buffer = << >> /\ context = NULL
    /\ hist.ok /\ Len(hist.lines) = 3
    /\ Ordinary(hist.lines[1]) /\ Blank(hist.lines[2])

\* C5: the quit sentinel received while active is reported not handled and
\* changes none of the buffer, the pending-blank marker, the active flag, the
\* context, the runtime, the table, the global object and the ownership.
C5_QuitChangesNothing ==
    [][(running /\ last'.op = "line" /\ last'.line = <<"q", "q", "q">>) =>
          /\ ~last'.ret
          /\ UNCHANGED <<input_buffer, empty_line_detected, running, context, runtime,
                         global_vars, global_obj, claims, releases>>]_vars

C5_Witness ==
    /\ last.op = "line" /\ last.line = <<"q", "q", "q">> /\ ~last.ret
    /\ running /\ input_buffer # << >> /\ empty_line_detected

\* C6: the start command invoked while active is reported not handled and
\* creates no runtime or context, claims no ownership, and leaves the buffer,
\* the pending-blank marker and the table as they were.
C6_StartWhileActiveIsNoOp ==
    [][(running /\ last'.op = "start") =>
          /\ ~last'.ret
          /\ UNCHANGED <<running, runtime, context, sessions, claims, releases,
                         input_buffer, empty_line_detected, global_vars, global_obj>>]_vars

C6_Witness ==
    /\ last.op = "start" /\ ~last.ret
    /\ running /\ context # NULL /\ input_buffer # << >> /\ empty_line_detected
    /\ global_vars # EmptyMap

\* C7: the session is active only with a context: after a start command whose
\* engine construction failed the session is idle, and holds no ownership,
\* runtime or context.
C7_ActiveImpliesContext ==
    /\ running => context # NULL
    /\ (last.op = "start" /\ last.outcome \in {"no_runtime", "no_context", "no_global"}) =>
          (~running /\ claims = releases /\ runtime = NULL /\ context = NULL)

\* C8: claims minus releases is 1 while active and 0 while idle; a claim is
\* made only by a step from idle to active and a release only by a step from
\* active to idle.
C8_OwnershipPaired ==
    /\ [](claims - releases = IF running THEN 1 ELSE 0)
    /\ [][/\ claims' # claims => (claims' = claims + 1 /\ ~running /\ running')
          /\ releases' # releases => (releases' = releases + 1 /\ running /\ ~running')]_vars

C8_Witness == claims = 2 /\ releases = 1 /\ running

\* C9: a lookup of a name that is in the table returns the stored value and
\* is a hit; a lookup of a name that is not, and is not the placeholder name,
\* is a miss that returns undefined; afterwards the table has exactly the old
\* names and the looked up ones, the old ones with the values they had and a
\* new one that is not the placeholder with undefined.
Earlier(lookups, k) == {j \in 1..(k - 1) : lookups[j].name = lookups[k].name}

C10_PlaceholderStoredAndDefined ==
    (last.op = "line" /\ \E k \in 1..Len(last.lookups) : last.lookups[k].name = MyString) =>
        /\ \A k \in 1..Len(last.lookups) :
              last.lookups[k].name = MyString => last.lookups[k].ret = JS_NewString(context)
        /\ MyString \in DOMAIN global_vars
        /\ global_vars[MyString] = JS_NewString(context)
        /\ MyString \in DOMAIN global_obj
        /\ global_obj[MyString] = JS_NewString(context)

\* C11: a submission whose evaluation throws leaves the session active with
\* the same context and runtime and the ownership held, and leaves the input
\* state as a fresh activation has it (empty buffer, no pending blank), so
\* the next block is accumulated and submitted as any other.
C11_ExceptionKeepsSession ==
    [][(last'.op = "line" /\ last'.evaluated /\ last'.exc # NoException) =>
          /\ running /\ running'
          /\ context' = context /\ context' # NULL
          /\ runtime' = runtime /\ runtime' # NULL
          /\ claims' = claims /\ releases' = releases /\ claims' - releases' = 1
          /\ last'.ret
          /\ input_buffer' = << >> /\ ~empty_line_detected']_vars

C11_Witness ==
    /\ last.op = "line" /\ last.evaluated /\ last.exc # NoException
    /\ running /\ context # NULL /\ input_buffer = << >>

\* C12: a line delivered while idle is reported not handled and changes
\* none of the buffer, the pending-blank marker, the active flag, the context,
\* the runtime, the table, the global object and the ownership.
C12_IdleLineChangesNothing ==
    [][(~running /\ last'.op = "line") =>
          /\ ~last'.ret
          /\ ~last'.exec /\ ~last'.evaluated
          /\ UNCHANGED <<input_buffer, empty_line_detected, running, context, runtime,
                         global_vars, global_obj, claims, releases, sessions>>]_vars

C12_Witness ==
    /\ last.op = "line" /\ Ordinary(last.line) /\ ~last.ret
    /\ ~running /\ sessions = 1 /\ releases = 1

\* the exception a reference to an unbound name raises
NotDefined(name) ==
    [kind |-> "ReferenceError",
     msg |-> name \o <<" ", "i", "s", " ", "n", "o", "t", " ", "d", "e", "f", "i", "n", "e", "d">>]
Names == {Foo, Bar, MyString}

\* C13: a block is evaluated once or twice; twice only when the first attempt
\* failed with a name-not-defined error, and then that name has been looked up
\* through the bridge and is in the table and on the global object; an
\* exception of the second attempt is the block's error.  A block of two
\* distinct names that are bound nowhere fails with two attempts, and exactly
\* one of the two names is added to the table.
C13_AtMostOneRetry ==
    /\ [](last.evaluated =>
            /\ last.attempts \in {1, 2}
            /\ last.attempts = 1 => last.exc = last.first
            /\ last.attempts = 2 =>
                  \E n \in Names :
                      /\ last.first = NotDefined(n)
                      /\ \E k \in 1..Len(last.lookups) : last.lookups[k].name = n
                      /\ n \in DOMAIN global_vars /\ n \in DOMAIN global_obj)
    /\ [][\A a, b \in Names :
             (/\ a # b
              /\ {a, b} \cap (DOMAIN global_vars \cup DOMAIN global_obj) = {}
              /\ last'.op = "line" /\ last'.evaluated
              /\ last'.submitted = JoinLines(<<a, b>>)) =>
                 /\ last'.attempts = 2
                 /\ last'.first = NotDefined(a)
                 /\ last'.exc = NotDefined(b)
                 /\ DOMAIN global_vars' = DOMAIN global_vars \cup {a}
                 /\ b \notin DOMAIN global_obj']_vars

C13_Witness ==
    /\ last.op = "line" /\ last.evaluated /\ last.attempts = 2
    /\ last.submitted = JoinLines(<<Foo, Bar>>)
    /\ last.exc = NotDefined(Bar)
    /\ DOMAIN global_vars = {Foo}

\* C14: the table lives as long as the context: without a context (in the
\* initial state and after the end sentinel) the table is empty.
C14_TableEmptyWithoutContext ==
    context = NULL => global_vars = EmptyMap

\* C16: a submission whose evaluation throws prints exactly one error message
\* on the console and no result line.
ErrorMessages(out) == {i \in 1..Len(out) : out[i].text = "Error: {}"}
ResultMessages(out) == {i \in 1..Len(out) : out[i].text = "=> {}"}

C16_ErrorPrintedOnConsole ==
    (last.op = "line" /\ last.evaluated /\ last.exc # NoException) =>
        /\ Cardinality(ErrorMessages(console)) = 1
        /\ ResultMessages(console) = {}

ConstructionFailed(call) ==
    call.op = "start" /\ call.outcome \in {"no_runtime", "no_context", "no_global"}

C17_StartRetriesAfterFailure ==
    [][(ConstructionFailed(last) /\ last'.op = "start" /\ last' # last) =>
          /\ last'.outcome # "none"
          /\ last'.outcome = "ok" => (running' /\ context' # NULL)]_vars

\* C18: after every handler the runtime pointer is null exactly when the
\* context pointer is, the pointers are the live objects, and no context is
\* live without its runtime; at no point of a handler are two runtimes or
\* two contexts live; a handler that frees a runtime and its context frees
\* the context first.
Live(objs, kind) == {o \in objs : o.kind = kind}

C18_RuntimeAndContextPaired ==
    /\ [](/\ runtime = NULL <=> context = NULL
          /\ Live(live, "runtime") =
                 IF runtime = NULL THEN {} ELSE {[kind |-> "runtime", id |-> runtime]}
          /\ Live(live, "context") =
                 IF context = NULL THEN {} ELSE {[kind |-> "context", id |-> context]}
          /\ \A c \in Live(live, "context") : [kind |-> "runtime", id |-> c.id] \in live
          /\ \A i, j \in 1..Len(last.events) :
                (/\ last.events[i].ev = "free" /\ last.events[i].kind = "runtime"
                 /\ last.events[j].ev = "free" /\ last.events[j].kind = "context"
                 /\ last.events[i].id = last.events[j].id) => j < i)
    /\ [][\A k \in 0..Len(last'.events) :
             LET now == Apply(live, SubSeq(last'.events, 1, k))
             IN  /\ Cardinality(Live(now, "runtime")) <= 1
                 /\ Cardinality(Live(now, "context")) <= 1
                 /\ \A c \in Live(now, "context") :
                        [kind |-> "runtime", id |-> c.id] \in now]_vars

\* the construction failed after the context was created: both were freed
C18_Witness ==
    /\ last.op = "start" /\ last.outcome = "no_global" /\ Len(last.events) = 4
    /\ runtime = NULL /\ context = NULL /\ live = {}
    /\ sessions = 2

\* C20: while idle the buffer is empty, no blank line is pending, and there
\* is no runtime, no context and no live engine object.
C20_IdleIsClean ==
    ~running =>
        /\ input_buffer = << >>
        /\ ~empty_line_detected
        /\ runtime = NULL /\ context = NULL
        /\ live = {}

C20_Witness ==
    /\ ~running /\ sessions = 2 /\ releases = 2
    /\ last.op = "line" /\ last.line = <<"e", "n", "d">> /\ last.ret
    /\ Len(last.events) = 2

\* C19: while active, a line that differs from a sentinel only in letter
\* case or in white space around it is an ordinary line: it is appended to
\* the buffer and reported handled, nothing is submitted, and the session
\* stays active with its context, runtime and ownership.
NearSentinels ==
    {<<"E", "N", "D">>, <<" ", "e", "n", "d">>, <<"e", "n", "d", " ">>, <<"Q", "Q", "Q">>}

C19_SentinelsMatchExactly ==
    [][(running /\ last'.op = "line" /\ last'.line \in NearSentinels) =>
          /\ last'.ret
          /\ input_buffer' = JoinLines(IF input_buffer = << >> THEN <<last'.line>>
                                       ELSE <<input_buffer, last'.line>>)
          /\ ~empty_line_detected'
          /\ ~last'.exec /\ ~last'.evaluated /\ last'.events = << >>
          /\ running'
          /\ context' = context /\ runtime' = runtime
          /\ claims' = claims /\ releases' = releases /\ claims' - releases' = 1]_vars

C19_Witness ==
    /\ running /\ context # NULL
    /\ last.op = "line" /\ last.line = <<" ", "e", "n", "d">> /\ last.ret
    /\ input_buffer = <<"E", "N", "D", "\n", " ", "e", "n", "d">>

====
